---- MODULE Spec2Model ----
(***************************************************************************)
(* Model of lib-version: the version model (parse / format / bump) of      *)
(* version_util.py and the tag resolver (get_latest_tag, get_version,      *)
(* get_dev_version, create_tag, delete_tag) with the build driver's        *)
(* determine_version of builder.py.                                        *)
(*                                                                         *)
(* Python strings are sequences of one-character strings.  Python's None   *)
(* is NoneVal for string-valued expressions and <<>> for tuples; an        *)
(* optional component of a parsed version is <<>> (None) or <<x>>.         *)
(***************************************************************************)
EXTENDS Integers, Sequences, FiniteSets, TLC

VARIABLES tags, headTags, versionModule, op, ret, calls

vars == <<tags, headTags, versionModule, op, ret, calls>>

NoneVal == <<"None">>

\* ---------------------------------------------------------------- strings
Digits == <<"0", "1", "2", "3", "4", "5", "6", "7", "8", "9">>

Digit == {Digits[i] : i \in 1..10}

Letter == {"a", "b", "c", "d", "e", "f", "g", "h", "i", "j", "k", "l", "m",
           "n", "o", "p", "q", "r", "s", "t", "u", "v", "w", "x", "y", "z",
           "A", "B", "C", "D", "E", "F", "G", "H", "I", "J", "K", "L", "M",
           "N", "O", "P", "Q", "R", "S", "T", "U", "V", "W", "X", "Y", "Z"}

\* the character class [a-zA-Z0-9.-] of VERSION_PATTERN
PreChar == Letter \cup Digit \cup {".", "-"}

DigitVal(c) == CHOOSE i \in 0..9 : Digits[i + 1] = c

\* int(s) for a non-empty run of decimal digits
RECURSIVE StrToInt(_)
StrToInt(s) ==
    IF Len(s) = 0 THEN 0
    ELSE 10 * StrToInt(SubSeq(s, 1, Len(s) - 1)) + DigitVal(s[Len(s)])

\* str(n) for a non-negative integer
RECURSIVE IntToStr(_)
IntToStr(n) ==
    IF n < 10 THEN <<Digits[n + 1]>>
    ELSE IntToStr(n \div 10) \o <<Digits[(n % 10) + 1]>>

\* length of the longest run of characters of class S in s from position i
RECURSIVE Run(_, _, _)
Run(s, i, S) ==
    IF i <= Len(s) /\ s[i] \in S THEN 1 + Run(s, i + 1, S) ELSE 0

DigitRun(s, i) == Run(s, i, Digit)

Tail_from(s, i) == SubSeq(s, i, Len(s))

startswith(s, p) == Len(s) >= Len(p) /\ SubSeq(s, 1, Len(p)) = p

\* str.replace(old, new): every non-overlapping occurrence, left to right
RECURSIVE replace(_, _, _)
replace(s, old, new) ==
    IF Len(s) < Len(old) THEN s
    ELSE IF startswith(s, old)
         THEN new \o replace(Tail_from(s, Len(old) + 1), old, new)
         ELSE <<s[1]>> \o replace(Tail_from(s, 2), old, new)

\* ---------------------------------------------------------- version model
\* the regular expression ^v?(\d+)\.(\d+)(?:\.(\d+))?(?:-([a-zA-Z0-9.-]+))?$
\* matched from position 1; `$' also matches before one final newline.
\* The result is <<>> (no match) or <<g1, g2, g3, g4>> with g3, g4 optional.
MatchEnd(s, i) == i = Len(s) + 1 \/ (i = Len(s) /\ s[i] = "\n")

MatchPre(s, i) ==
    \* (?:-([a-zA-Z0-9.-]+))?$ at position i: <<matched, group 4>>
    IF MatchEnd(s, i) THEN <<TRUE, <<>>>>
    ELSE IF i <= Len(s) /\ s[i] = "-"
         THEN LET n == Run(s, i + 1, PreChar)
              IN  IF n >= 1 /\ MatchEnd(s, i + n + 1)
                  THEN <<TRUE, <<SubSeq(s, i + 1, i + n)>>>>
                  ELSE <<FALSE, <<>>>>
         ELSE <<FALSE, <<>>>>

\* (?:\.(\d+))?(?:-(...))?$ at position i3, n3 digits following a dot there
\* (0 if there is no dot): the optional patch is tried first, then skipped
MatchPatch(s, g1, g2, i3, n3) ==
    IF n3 >= 1 /\ MatchPre(s, i3 + 1 + n3)[1]
    THEN <<g1, g2, <<SubSeq(s, i3 + 1, i3 + n3)>>, MatchPre(s, i3 + 1 + n3)[2]>>
    ELSE IF MatchPre(s, i3)[1]
         THEN <<g1, g2, <<>>, MatchPre(s, i3)[2]>>
         ELSE <<>>

\* (\d+) at position i2 (n2 digits), then the rest
MatchMinor(s, g1, i2, n2) ==
    IF n2 = 0 THEN <<>>
    ELSE MatchPatch(s, g1, SubSeq(s, i2, i2 + n2 - 1), i2 + n2,
                    IF i2 + n2 <= Len(s) /\ s[i2 + n2] = "."
                    THEN DigitRun(s, i2 + n2 + 1) ELSE 0)

\* (\d+)\. at position i1 (n1 digits), then the rest
MatchMajor(s, i1, n1) ==
    IF n1 = 0 \/ ~(i1 + n1 <= Len(s) /\ s[i1 + n1] = ".") THEN <<>>
    ELSE MatchMinor(s, SubSeq(s, i1, i1 + n1 - 1), i1 + n1 + 1, DigitRun(s, i1 + n1 + 1))

\* ^v? at position 1, then the rest
MatchV(s, i1) == MatchMajor(s, i1, DigitRun(s, i1))

VERSION_PATTERN(s) == MatchV(s, IF Len(s) >= 1 /\ s[1] = "v" THEN 2 ELSE 1)

\* the groups of a match as parse_version returns them
groups(m) ==
    IF m = <<>> THEN <<>>
    ELSE <<StrToInt(m[1]), StrToInt(m[2]),
           IF m[3] # <<>> THEN <<StrToInt(m[3][1])>> ELSE <<>>,
           IF m[4] # <<>> THEN m[4] ELSE <<>>>>

\* parse_version: <<>> is None, otherwise <<major, minor, patch, prerelease>>
\* with patch in {<<>>, <<n>>} and prerelease in {<<>>, <<string>>}
parse_version(version_str) ==
    IF version_str = NoneVal \/ version_str = <<>> THEN <<>>
    ELSE groups(VERSION_PATTERN(version_str))

\* format_version with `if patch' for `if patch is None': patch 0 is dropped
format_version_truthy_patch(major, minor, patch, prerelease, include_v) ==
    LET base == IF patch = <<>> \/ patch = <<0>>
                THEN IntToStr(major) \o <<".">> \o IntToStr(minor)
                ELSE IntToStr(major) \o <<".">> \o IntToStr(minor) \o <<".">> \o IntToStr(patch[1])
        withPre == IF prerelease # <<>> /\ prerelease[1] # <<>>
                   THEN base \o <<"-">> \o prerelease[1]
                   ELSE base
    IN  IF include_v THEN <<"v">> \o withPre ELSE withPre

\* format_version(major, minor, patch=None, prerelease=None, include_v=False)
format_version(major, minor, patch, prerelease, include_v) ==
    LET base == IF patch = <<>>
                THEN IntToStr(major) \o <<".">> \o IntToStr(minor)
                ELSE IntToStr(major) \o <<".">> \o IntToStr(minor) \o <<".">> \o IntToStr(patch[1])
        withPre == IF prerelease # <<>> /\ prerelease[1] # <<>>
                   THEN base \o <<"-">> \o prerelease[1]
                   ELSE base
    IN  IF include_v THEN <<"v">> \o withPre ELSE withPre

\* bump_version whose MINOR bump keeps the patch instead of resetting it
bump_version_keep_patch(version, part) ==
    LET parsed == parse_version(version)
    IN  IF parsed = <<>> THEN version
        ELSE IF part = "MAJOR" THEN format_version(parsed[1] + 1, 0, <<0>>, <<>>, FALSE)
        ELSE IF part = "MINOR" THEN format_version(parsed[1], parsed[2] + 1, parsed[3], <<>>, FALSE)
        ELSE LET patch == IF parsed[3] = <<>> THEN 0 ELSE parsed[3][1]
             IN  format_version(parsed[1], parsed[2], <<patch + 1>>, <<>>, FALSE)

\* bump_version(version, part)
bump_version(version, part) ==
    LET parsed == parse_version(version)
    IN  IF parsed = <<>> THEN version
        ELSE IF part = "MAJOR" THEN format_version(parsed[1] + 1, 0, <<0>>, <<>>, FALSE)
        ELSE IF part = "MINOR" THEN format_version(parsed[1], parsed[2] + 1, <<0>>, <<>>, FALSE)
        ELSE LET patch == IF parsed[3] = <<>> THEN 0 ELSE parsed[3][1]
             IN  format_version(parsed[1], parsed[2], <<patch + 1>>, <<>>, FALSE)

\* get_next_version_for_tag without the increment
get_next_version_for_tag_no_increment(tag) ==
    LET parsed == parse_version(tag)
    IN  IF parsed = <<>> THEN NoneVal
        ELSE LET patch == IF parsed[3] = <<>> THEN 0 ELSE parsed[3][1]
             IN  format_version(parsed[1], parsed[2], <<patch>>, <<>>, FALSE)

\* get_next_version_for_tag(tag)
get_next_version_for_tag(tag) ==
    LET parsed == parse_version(tag)
    IN  IF parsed = <<>> THEN NoneVal
        ELSE LET patch == IF parsed[3] = <<>> THEN 0 ELSE parsed[3][1]
                 next_patch == patch + 1
             IN  format_version(parsed[1], parsed[2], <<next_patch>>, <<>>, FALSE)

\* ------------------------------------------------------------ tag resolver
\* the (tag, parsed_version) pairs of the tags that parse, in listing order
RECURSIVE parsed_pairs(_)
parsed_pairs(lines) ==
    IF lines = <<>> THEN <<>>
    ELSE LET parsed == parse_version(lines[1])
         IN  (IF parsed # <<>> THEN <<<<lines[1], parsed>>>> ELSE <<>>)
                 \o parsed_pairs(Tail(lines))

\* the sort key of both sorted(...) calls of get_latest_tag, for a pair x
SortKey(x) == <<x[2][1], x[2][2], IF x[2][3] = <<>> THEN -1 ELSE x[2][3][1]>>

\* the order with the patch left out of the key
KeyLess_without_patch(a, b) ==
    \/ a[1] < b[1]
    \/ a[1] = b[1] /\ a[2] < b[2]

\* Python's tuple order on the sort keys
KeyLess(a, b) ==
    \/ a[1] < b[1]
    \/ a[1] = b[1] /\ a[2] < b[2]
    \/ a[1] = b[1] /\ a[2] = b[2] /\ a[3] < b[3]

\* sorted(xs, key=SortKey, reverse=True): descending and stable, so equal keys
\* keep their listing order
RECURSIVE sorted_reverse(_)
sorted_reverse(xs) ==
    IF xs = <<>> THEN <<>>
    ELSE LET x    == xs[Len(xs)]
             rest == sorted_reverse(SubSeq(xs, 1, Len(xs) - 1))
             \* x goes behind every element whose key is not smaller
             n    == Cardinality({i \in 1..Len(rest) : ~KeyLess(SortKey(rest[i]), SortKey(x))})
         IN  SubSeq(rest, 1, n) \o <<x>> \o SubSeq(rest, n + 1, Len(rest))

PreMarker == <<"-", "p", "r", "e">>

\* parsed[3] is None, for a pair x
HasNoPrerelease(x) == x[2][4] = <<>>

\* get_latest_tag that returns the winning prerelease tag unchanged
get_latest_tag_keep_pre(git) ==
    IF ~git.ok THEN NoneVal
    ELSE LET parsed_tags  == parsed_pairs(git.lines)
             non_pre_tags == SelectSeq(parsed_tags, HasNoPrerelease)
         IN  IF git.lines = <<>> THEN NoneVal
             ELSE IF parsed_tags = <<>> THEN NoneVal
             ELSE IF non_pre_tags # <<>> THEN sorted_reverse(non_pre_tags)[1][1]
             ELSE sorted_reverse(parsed_tags)[1][1]

\* get_latest_tag(): git is the answer of `git tag', [ok, lines]
get_latest_tag(git) ==
    IF ~git.ok THEN NoneVal
    ELSE LET parsed_tags  == parsed_pairs(git.lines)
             non_pre_tags == SelectSeq(parsed_tags, HasNoPrerelease)
         IN  IF git.lines = <<>> THEN NoneVal
             ELSE IF parsed_tags = <<>> THEN NoneVal
             ELSE IF non_pre_tags # <<>> THEN sorted_reverse(non_pre_tags)[1][1]
             ELSE replace(sorted_reverse(parsed_tags)[1][1], PreMarker, <<>>)

\* latest_tag[1:] if latest_tag.startswith('v') else latest_tag
strip_v(tag) == IF startswith(tag, <<"v">>) THEN Tail_from(tag, 2) ELSE tag

Unknown == <<"u", "n", "k", "n", "o", "w", "n">>

\* get_commit_hash() / get_branch(): the answer, or "unknown" when git fails
get_commit_hash(env) == IF env.commit = NoneVal THEN Unknown ELSE env.commit

get_branch(env) == IF env.branch = NoneVal THEN Unknown ELSE env.branch

\* is_on_tagged_commit(): git describe --exact-match --tags succeeded
is_on_tagged_commit(env, H) == env.describeOk /\ H # {}

\* The outcome of a call: the returned value (or the exception raised), the
\* local tags and the tags on HEAD after it, and the requests it made to git
\* and to the file system, in order.
Outcome(value, raised, T, H, reqs) ==
    [value |-> value, raised |-> raised, tags |-> T, head |-> H, calls |-> reqs]

\* _save_version(version): the record written to version.json; the call
\* raises when `date' or the write fails
SaveRecord(version, env) ==
    [version |-> version, commit |-> get_commit_hash(env), branch |-> get_branch(env)]

_save_version_ok(env) == env.saveOk

WriteReq(version, env) == <<"write version.json", SaveRecord(version, env)>>

DefaultVersion == <<"0", ".", "0", ".", "1", "-", "d", "e", "v", "0">>

\* In the operators below env.latest is what the call's get_latest_tag()
\* returned (get_latest_tag applied to the answer of `git tag').

\* get_version without the fallback to the _version module
get_version_no_module(env, T, H, mod) ==
    LET latest_tag == env.latest
    IN  IF latest_tag # NoneVal /\ latest_tag # <<>> /\ _save_version_ok(env)
        THEN Outcome(strip_v(latest_tag), FALSE, T, H, <<WriteReq(strip_v(latest_tag), env)>>)
        ELSE Outcome(DefaultVersion, FALSE, T, H, <<>>)

\* get_version(): mod is __version__ of the _version module, NoneVal if the
\* module cannot be imported
get_version(env, T, H, mod) ==
    LET latest_tag == env.latest
    IN  IF latest_tag # NoneVal /\ latest_tag # <<>> /\ _save_version_ok(env)
        THEN Outcome(strip_v(latest_tag), FALSE, T, H, <<WriteReq(strip_v(latest_tag), env)>>)
        ELSE IF mod # NoneVal
             THEN Outcome(mod, FALSE, T, H, <<>>)
             ELSE Outcome(DefaultVersion, FALSE, T, H, <<>>)

\* create_tag that reports success once the local tag exists
create_tag_ignoring_push(version, push, env, T, H) ==
    LET tag     == IF ~startswith(version, <<"v">>) THEN <<"v">> \o version ELSE version
        created == env.createOk /\ tag \notin T
    IN  Outcome(created, FALSE,
                IF created THEN T \cup {tag} ELSE T,
                IF created THEN H \cup {tag} ELSE H,
                <<<<"git tag", tag>>>> \o
                    (IF created /\ push THEN <<<<"git push origin", tag>>>> ELSE <<>>))

\* create_tag(version, push): git tag fails on an existing tag
create_tag(version, push, env, T, H) ==
    LET tag     == IF ~startswith(version, <<"v">>) THEN <<"v">> \o version ELSE version
        created == env.createOk /\ tag \notin T
        pushed  == created /\ push /\ env.pushOk
    IN  Outcome(created /\ (push => pushed), FALSE,
                IF created THEN T \cup {tag} ELSE T,
                IF created THEN H \cup {tag} ELSE H,
                <<<<"git tag", tag>>>> \o
                    (IF created /\ push THEN <<<<"git push origin", tag>>>> ELSE <<>>))

\* delete_tag(tag, push): git tag -d fails on a missing tag
delete_tag(tag, push, env, T, H) ==
    LET deleted == env.delOk /\ tag \in T
        pushed  == deleted /\ push /\ env.pushOk
    IN  Outcome(deleted /\ (push => pushed), FALSE,
                IF deleted THEN T \ {tag} ELSE T,
                IF deleted THEN H \ {tag} ELSE H,
                <<<<"git tag -d", tag>>>> \o
                    (IF deleted /\ push THEN <<<<"git push origin :refs/tags/", tag>>>> ELSE <<>>))

DefaultBase == <<"0", ".", "0", ".", "1">>

DevSuffix == <<".", "d", "e", "v">>

HeadName == <<"H", "E", "A", "D">>

\* get_dev_version in which a failed branch or commit lookup also falls back
get_dev_version_strict(base_version, env, T, H) ==
    LET latest_tag == env.latest
        base == IF base_version = NoneVal \/ base_version = <<>>
                THEN IF latest_tag # NoneVal /\ latest_tag # <<>>
                     THEN strip_v(latest_tag)
                     ELSE DefaultBase
                ELSE base_version
        branch_info == IF env.branch # HeadName THEN replace(env.branch, <<"/">>, <<".">>) ELSE Unknown
        dev_version == base \o DevSuffix \o env.count \o <<"+">> \o branch_info
                            \o <<".">> \o env.commit
    IN  IF env.count # NoneVal /\ env.branch # NoneVal /\ env.commit # NoneVal
           /\ _save_version_ok(env)
        THEN Outcome(dev_version, FALSE, T, H, <<WriteReq(dev_version, env)>>)
        ELSE Outcome(base \o DevSuffix \o <<"0">>, FALSE, T, H, <<>>)

\* get_dev_version(base_version=None)
get_dev_version(base_version, env, T, H) ==
    LET latest_tag == env.latest
        base == IF base_version = NoneVal \/ base_version = <<>>
                THEN IF latest_tag # NoneVal /\ latest_tag # <<>>
                     THEN strip_v(latest_tag)
                     ELSE DefaultBase
                ELSE base_version
        branch      == get_branch(env)
        commit_hash == get_commit_hash(env)
        branch_info == IF branch # HeadName THEN replace(branch, <<"/">>, <<".">>) ELSE Unknown
        dev_version == base \o DevSuffix \o env.count \o <<"+">> \o branch_info
                            \o <<".">> \o commit_hash
    IN  IF env.count # NoneVal /\ _save_version_ok(env)
        THEN Outcome(dev_version, FALSE, T, H, <<WriteReq(dev_version, env)>>)
        ELSE Outcome(base \o DevSuffix \o <<"0">>, FALSE, T, H, <<>>)

\* determine_version in which use_dev_version silences the override
determine_version_dev_over_override(version_override, use_dev_version, env, T, H) ==
    IF version_override # NoneVal /\ version_override # <<>> /\ ~use_dev_version
    THEN Outcome(<<version_override, FALSE>>, FALSE, T, H, <<>>)
    ELSE IF is_on_tagged_commit(env, H) /\ ~use_dev_version
    THEN LET tag    == env.latest
             parsed == parse_version(tag)
         IN  IF parsed # <<>>
             THEN LET version == get_next_version_for_tag(tag)
                      c == create_tag(version, TRUE, env, T, H)
                  IN  Outcome(<<version, TRUE>>, FALSE, c.tags, c.head, c.calls)
             ELSE IF tag = NoneVal
                  THEN Outcome(<<"AttributeError">>, TRUE, T, H, <<>>)
                  ELSE Outcome(<<strip_v(tag), FALSE>>, FALSE, T, H, <<>>)
    ELSE LET d == get_dev_version(NoneVal, env, T, H)
         IN  Outcome(<<d.value, FALSE>>, FALSE, d.tags, d.head, d.calls)

\* PackageBuilder.determine_version(use_dev_version): the value is
\* <<version, is_new_tag>>
determine_version(version_override, use_dev_version, env, T, H) ==
    IF version_override # NoneVal /\ version_override # <<>>
    THEN Outcome(<<version_override, FALSE>>, FALSE, T, H, <<>>)
    ELSE IF is_on_tagged_commit(env, H) /\ ~use_dev_version
    THEN LET tag    == env.latest
             parsed == parse_version(tag)
         IN  IF parsed # <<>>
             THEN LET version == get_next_version_for_tag(tag)
                      c == create_tag(version, TRUE, env, T, H)
                  IN  Outcome(<<version, TRUE>>, FALSE, c.tags, c.head, c.calls)
             ELSE IF tag = NoneVal
                  THEN Outcome(<<"AttributeError">>, TRUE, T, H, <<>>)
                  ELSE Outcome(<<strip_v(tag), FALSE>>, FALSE, T, H, <<>>)
    ELSE LET d == get_dev_version(NoneVal, env, T, H)
         IN  Outcome(<<d.value, FALSE>>, FALSE, d.tags, d.head, d.calls)

\* get_metadata(): `date' is called outside any try; the value is
\* <<version, commit, branch>> (the timestamp is left out)
get_metadata(env, T, H, mod) ==
    IF ~env.dateOk THEN Outcome(<<"CalledProcessError">>, TRUE, T, H, <<>>)
    ELSE LET v == get_version(env, T, H, mod)
         IN  Outcome(<<v.value, get_commit_hash(env), get_branch(env)>>, FALSE, T, H, v.calls)

\* get_major_minor_tags(): the listed tags that parse with parsed[2] is None;
\* get_all_tags() gives [] when `git tag' fails
RECURSIVE major_minor(_)
major_minor(lines) ==
    IF lines = <<>> THEN <<>>
    ELSE LET parsed == parse_version(lines[1])
         IN  (IF parsed # <<>> /\ parsed[3] = <<>> THEN <<lines[1]>> ELSE <<>>)
                 \o major_minor(Tail(lines))

get_major_minor_tags(git) == IF ~git.ok THEN <<>> ELSE major_minor(git.lines)

\* write_version_files(version): version.json from get_metadata() with the
\* version replaced, then _version.py; module is __version__ afterwards
write_version_files(version, env, filesOk, T, H, mod) ==
    LET m == get_metadata(env, T, H, mod)
    IN  IF m.raised THEN [out |-> m, module |-> mod]
        ELSE IF ~filesOk
             THEN [out |-> Outcome(<<"OSError">>, TRUE, T, H, m.calls), module |-> mod]
             ELSE [out |-> Outcome(version, FALSE, T, H,
                                   m.calls \o <<WriteReq(version, env),
                                                <<"write _version.py", version>>>>),
                   module |-> version]

\* the loop of build over major_minor_tags: every tag but original_tag is
\* deleted with push=True; o is the outcome so far
RECURSIVE delete_others(_, _, _, _)
delete_others(major_minor_tags, original_tag, env, o) ==
    IF major_minor_tags = <<>> THEN o
    ELSE LET tag == major_minor_tags[1]
             d   == delete_tag(tag, TRUE, env, o.tags, o.head)
         IN  delete_others(Tail(major_minor_tags), original_tag, env,
                           IF tag # original_tag
                           THEN Outcome(o.value, FALSE, d.tags, d.head, o.calls \o d.calls)
                           ELSE o)

\* the steps of build after determine_version returned d
build_from(d, env, mod) ==
    LET w == write_version_files(d.value[1], env.meta, env.filesOk, d.tags, d.head, mod)
        written == Outcome(<<d.value[1], "dist">>, FALSE, d.tags, d.head, d.calls \o w.out.calls)
    IN  IF w.out.raised
        THEN [out |-> Outcome(w.out.value, TRUE, d.tags, d.head, d.calls \o w.out.calls),
              module |-> w.module]
        ELSE IF ~env.packOk
             THEN [out |-> Outcome(<<"CalledProcessError">>, TRUE, d.tags, d.head, written.calls),
                   module |-> w.module]
             ELSE [out |-> delete_others(env.major_minor, env.original, env.del, written),
                   module |-> w.module]

\* PackageBuilder.build(use_dev_version): the value is <<version, output_dir>>;
\* env.original is what the first get_latest_tag() returned, env.major_minor
\* what get_major_minor_tags() returned
build(version_override, use_dev_version, env, T, H, mod) ==
    LET d == determine_version(version_override, use_dev_version, env.det, T, H)
    IN  IF d.raised THEN [out |-> d, module |-> mod]
        ELSE build_from(d, env, mod)

\* ------------------------------------------------------------------ bounds
MaxInitTags == 3

MaxNum == 10

MaxLen == 5

MaxPreLen == 2

\* ------------------------------------------------------------------ inputs
TagUniverse ==
    { <<"v", "1", ".", "0", ".", "0">>,
      <<"v", "1", ".", "1", ".", "0">>,
      <<"v", "1", ".", "1">>,
      <<"v", "1", ".", "2">>,
      <<"v", "1", ".", "9", ".", "0">>,
      <<"v", "1", ".", "1", "0", ".", "0">>,
      <<"v", "1", ".", "0", ".", "0", "-", "p", "r", "e", "1">>,
      <<"v", "2", ".", "0">>,
      <<"v", "2", ".", "0", "-", "p", "r", "e">>,
      <<"b", "a", "d">> }

Overrides == {NoneVal, <<>>, <<"9", ".", "9">>}

BaseVersions == {NoneVal, <<"3", ".", "0">>}

Modules == {NoneVal, <<"0", ".", "9", ".", "0">>}

Counts == {<<"7">>}

Branches == {<<"f", "/", "x">>, HeadName}

Commits == {<<"a", "1", "b", "2">>}

TagArgs == {<<"1", ".", "2", ".", "0">>, <<"v", "1", ".", "0", ".", "0">>, <<"v", "a", "n">>}

\* every order in which `git tag' can list the tags T
RECURSIVE Perms(_)
Perms(T) ==
    IF T = {} THEN {<<>>}
    ELSE UNION {{<<t>> \o p : p \in Perms(T \ {t})} : t \in T}

\* the answers of the collaborators to one call; an answer that is not asked
\* for keeps the value it has in NoEnv
NoEnv ==
    [gitTagOk |-> FALSE, latest |-> NoneVal, describeOk |-> FALSE,
     count |-> NoneVal, branch |-> NoneVal, commit |-> NoneVal, saveOk |-> FALSE,
     createOk |-> FALSE, pushOk |-> FALSE, delOk |-> FALSE, dateOk |-> FALSE]

\* `git tag': fails, or lists the tags in some order
Listings(T) == {[ok |-> FALSE, lines |-> <<>>]} \cup {[ok |-> TRUE, lines |-> p] : p \in Perms(T)}

ListEnvs(e, T) ==
    {[e EXCEPT !.gitTagOk = g.ok, !.latest = get_latest_tag(g)] : g \in Listings(T)}

\* git rev-parse (branch, commit) and _save_version
IdentEnvs(e) ==
    {[e EXCEPT !.branch = b, !.commit = h, !.saveOk = s] :
        b \in Branches \cup {NoneVal}, h \in Commits \cup {NoneVal}, s \in BOOLEAN}

\* git rev-list --count, then (only if it succeeded) the identity lookups
CountEnvs(e) ==
    {e} \cup UNION {IdentEnvs([e EXCEPT !.count = c]) : c \in Counts}

\* git tag <name>, then (only if it succeeded) git push
CreateEnvs(e, push) ==
    {e, [e EXCEPT !.createOk = TRUE]}
        \cup (IF push THEN {[e EXCEPT !.createOk = TRUE, !.pushOk = TRUE]} ELSE {})

DeleteEnvs(e, push) ==
    {e, [e EXCEPT !.delOk = TRUE]}
        \cup (IF push THEN {[e EXCEPT !.delOk = TRUE, !.pushOk = TRUE]} ELSE {})

\* ------------------------------------------------------------ state machine
Idle == [name |-> "idle"]

NoRet == [raised |-> FALSE, value |-> NoneVal]

Init ==
    /\ tags \in {T \in SUBSET TagUniverse : Cardinality(T) <= MaxInitTags}
    /\ headTags \in {{}} \cup {{t} : t \in tags}
    /\ versionModule \in Modules
    /\ op = Idle
    /\ ret = NoRet
    /\ calls = <<>>

\* what a call leaves behind: the call and the answers it got, the state
\* before it, and its outcome
Call(name, args, env, o) ==
    /\ op' = [name |-> name, args |-> args, env |-> env,
              tagsBefore |-> tags, headBefore |-> headTags]
    /\ ret' = [raised |-> o.raised, value |-> o.value]
    /\ tags' = o.tags
    /\ headTags' = o.head
    /\ calls' = o.calls
    /\ UNCHANGED versionModule

Plain(value) == Outcome(value, FALSE, tags, headTags, <<>>)

Call_get_latest_tag ==
    op = Idle /\ \E env \in ListEnvs(NoEnv, tags) :
        Call("get_latest_tag", <<>>, env, Plain(env.latest))

Call_get_version ==
    op = Idle /\ \E e1 \in ListEnvs(NoEnv, tags) :
        \E env \in (IF e1.latest = NoneVal THEN {e1} ELSE IdentEnvs(e1)) :
            Call("get_version", <<>>, env, get_version(env, tags, headTags, versionModule))

Call_get_dev_version ==
    op = Idle /\ \E e0 \in ListEnvs(NoEnv, tags), base_version \in BaseVersions :
        \E env \in CountEnvs(IF base_version = NoneVal THEN e0 ELSE NoEnv) :
            Call("get_dev_version", <<base_version>>, env,
                 get_dev_version(base_version, env, tags, headTags))

Call_create_tag ==
    op = Idle /\ \E version \in TagArgs, push \in BOOLEAN :
        \E env \in CreateEnvs(NoEnv, push) :
            Call("create_tag", <<version, push>>, env,
                 create_tag(version, push, env, tags, headTags))

Call_delete_tag ==
    op = Idle /\ \E tag \in tags \cup TagArgs, push \in BOOLEAN :
        \E env \in DeleteEnvs(NoEnv, push) :
            Call("delete_tag", <<tag, push>>, env,
                 delete_tag(tag, push, env, tags, headTags))

\* the answers determine_version asks for, e0 being the answer of `git tag':
\* none with an override; on a tagged commit the listing and the tag
\* creation; otherwise those of get_dev_version
DetermineEnvs(version_override, use_dev_version, e0) ==
    IF version_override # NoneVal /\ version_override # <<>> THEN {NoEnv}
    ELSE UNION {IF is_on_tagged_commit(e1, headTags) /\ ~use_dev_version
                THEN IF parse_version(e1.latest) # <<>> THEN CreateEnvs(e1, TRUE) ELSE {e1}
                ELSE CountEnvs(e1) :
                    e1 \in {e0} \cup (IF headTags # {} THEN {[e0 EXCEPT !.describeOk = TRUE]} ELSE {})}

Call_determine_version ==
    op = Idle /\ \E e0 \in ListEnvs(NoEnv, tags), version_override \in Overrides,
                    use_dev_version \in BOOLEAN :
        \E env \in DetermineEnvs(version_override, use_dev_version, e0) :
            Call("determine_version", <<version_override, use_dev_version>>, env,
                 determine_version(version_override, use_dev_version, env, tags, headTags))

\* the answers get_metadata asks for: `date', then those of get_version,
\* then the identity lookups
MetaEnvs(T) ==
    {NoEnv} \cup
    UNION {IF e1.latest = NoneVal THEN {e \in IdentEnvs(e1) : ~e.saveOk} ELSE IdentEnvs(e1) :
              e1 \in ListEnvs([NoEnv EXCEPT !.dateOk = TRUE], T)}

Call_get_metadata ==
    op = Idle /\ \E env \in MetaEnvs(tags) :
        Call("get_metadata", <<>>, env, get_metadata(env, tags, headTags, versionModule))

\* the answers to a build that got no further than determine_version
BuildEnv(original, det) ==
    [original |-> original, det |-> det, meta |-> NoEnv, filesOk |-> FALSE,
     packOk |-> FALSE, allOk |-> FALSE, major_minor |-> <<>>, del |-> NoEnv]

\* within a build get_metadata fails at `date' or gets every answer, `git
\* tag' listing the tags in one order
BuildMetaEnvs(T) ==
    LET git == [ok |-> TRUE, lines |-> CHOOSE p \in Perms(T) : TRUE]
    IN  {[NoEnv EXCEPT !.dateOk = TRUE, !.gitTagOk = TRUE, !.latest = get_latest_tag(git),
                       !.branch = b, !.commit = h, !.saveOk = TRUE] :
            b \in Branches \ {HeadName}, h \in Commits}

\* what get_major_minor_tags can return: [] when `git tag' fails, otherwise
\* the tags of T with an absent patch in the order of the listing
MajorMinorAnswers(T) ==
    {[ok |-> FALSE, major_minor |-> <<>>]} \cup
    {[ok |-> TRUE, major_minor |-> p] :
        p \in Perms({t \in T : get_major_minor_tags([ok |-> TRUE, lines |-> <<t>>]) = <<t>>})}

\* the answers asked for after determine_version returned d: get_metadata,
\* the two file writes, the packaging, `git tag' of get_all_tags and, if a
\* tag is to be deleted, git tag -d and git push (the same for every tag)
BuildEnvs(e, d) ==
    {e} \cup
    UNION {{[e EXCEPT !.meta = m], [e EXCEPT !.meta = m, !.filesOk = TRUE]} \cup
           UNION {LET e3 == [e EXCEPT !.meta = m, !.filesOk = TRUE, !.packOk = TRUE,
                                      !.allOk = g.ok, !.major_minor = g.major_minor]
                  IN  IF \E i \in 1..Len(g.major_minor) : g.major_minor[i] # e.original
                      THEN {[e3 EXCEPT !.del = x] : x \in DeleteEnvs(NoEnv, TRUE)}
                      ELSE {e3} : g \in MajorMinorAnswers(d.tags)} :
              m \in BuildMetaEnvs(d.tags)}

\* what a build leaves behind: as Call, and the _version module it wrote
Built(args, env, b) ==
    /\ op' = [name |-> "build", args |-> args, env |-> env,
              tagsBefore |-> tags, headBefore |-> headTags]
    /\ ret' = [raised |-> b.out.raised, value |-> b.out.value]
    /\ tags' = b.out.tags
    /\ headTags' = b.out.head
    /\ calls' = b.out.calls
    /\ versionModule' = b.module

Call_build_with(original, det, d, version_override, use_dev_version) ==
    \E env \in (IF d.raised THEN {BuildEnv(original, det)}
                ELSE BuildEnvs(BuildEnv(original, det), d)) :
        Built(<<version_override, use_dev_version>>, env,
              build(version_override, use_dev_version, env, tags, headTags, versionModule))

\* within a build get_dev_version fails at the commit count or gets every
\* answer
BuildDetEnvs(version_override, use_dev_version, e0) ==
    {e \in DetermineEnvs(version_override, use_dev_version, e0) :
        e.count = NoneVal \/ (e.saveOk /\ e.branch \notin {NoneVal, HeadName}
                                 /\ e.commit # NoneVal)}

Call_build ==
    op = Idle /\ \E o0 \in ListEnvs(NoEnv, tags), e0 \in ListEnvs(NoEnv, tags),
                    version_override \in Overrides, use_dev_version \in BOOLEAN :
        \E det \in BuildDetEnvs(version_override, use_dev_version, e0) :
            Call_build_with(o0.latest, det,
                            determine_version(version_override, use_dev_version, det,
                                              tags, headTags),
                            version_override, use_dev_version)

Next ==
    \/ Call_get_latest_tag
    \/ Call_get_version
    \/ Call_get_dev_version
    \/ Call_create_tag
    \/ Call_delete_tag
    \/ Call_determine_version
    \/ Call_get_metadata

\* one command on a repository: cli.main runs one call and exits
Spec == Init /\ [][Next]_vars

\* ------------------------------------------------------- a build on its own
\* the repositories a build starts from
BuildTagUniverse ==
    { <<"v", "1", ".", "1">>,
      <<"v", "1", ".", "2">>,
      <<"v", "1", ".", "1", ".", "0">>,
      <<"v", "2", ".", "0">>,
      <<"v", "2", ".", "0", "-", "p", "r", "e">>,
      <<"b", "a", "d">> }

InitBuild ==
    /\ tags \in {T \in SUBSET BuildTagUniverse : Cardinality(T) <= MaxInitTags}
    /\ headTags \in {{}} \cup {{t} : t \in tags}
    /\ versionModule \in Modules
    /\ op = Idle
    /\ ret = NoRet
    /\ calls = <<>>

NextBuild == Call_build

\* one build of a repository
SpecBuild == InitBuild /\ [][NextBuild]_vars

\* ------------------------------------------- the version model on its own
\* all strings over Alphabet of length at most n
RECURSIVE Strings(_, _)
Strings(Alphabet, n) ==
    IF n = 0 THEN {<<>>}
    ELSE LET shorter == Strings(Alphabet, n - 1)
         IN  shorter \cup {Append(w, c) : w \in {x \in shorter : Len(x) = n - 1}, c \in Alphabet}

VersionAlphabet == {"v", "1", "0", ".", "-", "a"}

LongVersions ==
    { <<"1", ".", "2", ".", "3">>,
      <<"v", "1", ".", "2", ".", "3">>,
      <<"1", ".", "2", ".", "3", "-", "d", "e", "v", "1">>,
      <<"v", "1", ".", "9", ".", "9", "-", "r", "c", ".", "1">>,
      <<"1", "0", ".", "0", "9", ".", "0", "0", "9">>,
      <<"i", "n", "v", "a", "l", "i", "d">>,
      <<"1", ".", "2", "\n">>,
      <<"1", ".", "2", "\n", "\n">>,
      <<"1", ".", "2", "-", "a", "_", "b">>,
      <<"V", "1", ".", "2">> }

VersionInputs == Strings(VersionAlphabet, MaxLen) \cup LongVersions

Parts == {"MAJOR", "MINOR", "PATCH"}

PreAlphabet == {"a", "1", ".", "-"}

Prereleases == Strings(PreAlphabet, MaxPreLen) \ {<<>>}

Nums == 0..MaxNum

InitPure ==
    /\ tags = {}
    /\ headTags = {}
    /\ versionModule = NoneVal
    /\ op = Idle
    /\ ret = NoRet
    /\ calls = <<>>

Pure(name, args, value) ==
    /\ op' = [name |-> name, args |-> args]
    /\ ret' = [raised |-> FALSE, value |-> value]
    /\ UNCHANGED <<tags, headTags, versionModule, calls>>

Call_parse_version ==
    op = Idle /\ \E version_str \in VersionInputs \cup {NoneVal} :
        Pure("parse_version", <<version_str>>, parse_version(version_str))

Call_format_version ==
    op = Idle /\ \E major \in Nums, minor \in Nums, patch \in {<<>>} \cup {<<n>> : n \in Nums},
       prerelease \in {<<>>} \cup {<<w>> : w \in Prereleases}, include_v \in BOOLEAN :
        Pure("format_version", <<major, minor, patch, prerelease, include_v>>,
             format_version(major, minor, patch, prerelease, include_v))

Call_bump_version ==
    op = Idle /\ \E version \in VersionInputs, part \in Parts :
        Pure("bump_version", <<version, part>>, bump_version(version, part))

Call_get_next_version_for_tag ==
    op = Idle /\ \E tag \in VersionInputs :
        Pure("get_next_version_for_tag", <<tag>>, get_next_version_for_tag(tag))

NextPure ==
    \/ Call_parse_version
    \/ Call_format_version
    \/ Call_bump_version
    \/ Call_get_next_version_for_tag

SpecPure == InitPure /\ [][NextPure]_vars

\* ----------------------------------------------------------------- claims
\* vocabulary of the claims, stated on parsed versions
Parses(t) == parse_version(t) # <<>>

Major(t) == parse_version(t)[1]

Minor(t) == parse_version(t)[2]

HasPatch(t) == parse_version(t)[3] # <<>>

PatchOrMinus1(t) == IF HasPatch(t) THEN parse_version(t)[3][1] ELSE -1

HasPre(t) == parse_version(t)[4] # <<>>

\* a release tag: explicit patch and no prerelease
IsRelease(t) == Parses(t) /\ HasPatch(t) /\ ~HasPre(t)

\* a parseable tag without prerelease, with or without a patch
IsPlain(t) == Parses(t) /\ ~HasPre(t)

\* t is below u in the order (major, minor, patch-or-(-1)) on integers
Below(t, u) ==
    \/ Major(t) < Major(u)
    \/ Major(t) = Major(u) /\ Minor(t) < Minor(u)
    \/ Major(t) = Major(u) /\ Minor(t) = Minor(u) /\ PatchOrMinus1(t) < PatchOrMinus1(u)

\* w is a maximum of the tags of S
IsMaxOf(w, S) == w \in S /\ \A t \in S : ~Below(w, t)

Listed == op.name = "get_latest_tag" /\ op.env.gitTagOk

V(n) == IntToStr(n)

\* the tag sets of the examples
T_v1_0_0 == <<"v", "1", ".", "0", ".", "0">>
T_v1_1_0 == <<"v", "1", ".", "1", ".", "0">>
T_v1_1 == <<"v", "1", ".", "1">>
T_v1_2 == <<"v", "1", ".", "2">>
T_v1_9_0 == <<"v", "1", ".", "9", ".", "0">>
T_v1_10_0 == <<"v", "1", ".", "1", "0", ".", "0">>
T_v2_0 == <<"v", "2", ".", "0">>
T_v2_0_pre == <<"v", "2", ".", "0", "-", "p", "r", "e">>
T_v1_0_0_pre1 == <<"v", "1", ".", "0", ".", "0", "-", "p", "r", "e", "1">>
T_bad == <<"b", "a", "d">>

\* C1 as stated: whenever the tags contain a release tag (explicit patch, no
\* prerelease), get_latest_tag returns a release tag that is a maximum of the
\* release tags by (major, minor, patch) on integers.
C1_Original ==
    (Listed /\ \E t \in tags : IsRelease(t))
        => IsMaxOf(ret.value, {t \in tags : IsRelease(t)})

\* C1 amended: whenever the tags contain a parseable tag without prerelease
\* (with or without a patch), get_latest_tag returns one of them that is a
\* maximum of them by (major, minor, patch-or-(-1)) on integers: v1.10.0
\* beats v1.9.0, v1.1.0 beats v1.1, but v2.0 beats v1.0.0; tags with a
\* prerelease and unparsable tags never win.
C1_LatestPlainTag ==
    (Listed /\ \E t \in tags : IsPlain(t))
        => IsMaxOf(ret.value, {t \in tags : IsPlain(t)})

C1_Witness ==
    /\ Listed
    /\ tags = {T_v1_9_0, T_v1_10_0, T_v1_1}
    /\ ret.value = T_v1_10_0

\* C5 as stated: with no release tag but a parseable tag, get_latest_tag
\* returns a maximum of ALL parseable tags by (major, minor, patch-or-(-1))
\* with the literal -pre removed; with no parseable tag it returns None.
C5_Original ==
    (Listed /\ ~\E t \in tags : IsRelease(t))
        => IF \E t \in tags : Parses(t)
           THEN \E w \in tags : /\ IsMaxOf(w, {t \in tags : Parses(t)})
                                /\ ret.value = replace(w, PreMarker, <<>>)
           ELSE ret.value = NoneVal

\* C5 amended: when every parseable tag carries a prerelease (there is no
\* parseable tag without one) and some tag parses, get_latest_tag returns a
\* maximum of all parseable tags by (major, minor, patch-or-(-1)) with every
\* occurrence of the literal -pre removed ({v2.0-pre} gives v2.0); when no tag
\* parses, or git fails, it returns None.
C5_LatestPrereleaseTag ==
    /\ (Listed /\ ~\E t \in tags : IsPlain(t))
        => IF \E t \in tags : Parses(t)
           THEN \E w \in tags : /\ IsMaxOf(w, {t \in tags : Parses(t)})
                                /\ ret.value = replace(w, PreMarker, <<>>)
           ELSE ret.value = NoneVal
    /\ (op.name = "get_latest_tag" /\ ~op.env.gitTagOk) => ret.value = NoneVal

C5_Witness ==
    /\ Listed
    /\ tags = {T_v2_0_pre, T_v1_0_0_pre1, T_bad}
    /\ ret.value = T_v2_0

\* determine_version ran without an override on a tagged commit, not forced
\* to a development version, and resolved the tag op.env.latest
NoOverride == op.args[1] = NoneVal \/ op.args[1] = <<>>

OnTagged ==
    /\ op.name = "determine_version"
    /\ NoOverride
    /\ ~op.args[2]
    /\ op.env.describeOk
    /\ op.headBefore # {}

TagRequests == {i \in 1..Len(calls) : calls[i][1] = "git tag"}

\* C2: on a tagged commit whose resolved tag has an explicit patch (vX.Y.Z),
\* determine_version returns ("X.Y.Z", False), the tag with its leading v
\* stripped, requests no tag creation and leaves the tags unchanged.
C2_FullTagUsedAsIs ==
    (OnTagged /\ Parses(op.env.latest) /\ HasPatch(op.env.latest))
        => /\ ~ret.raised
           /\ ret.value = <<strip_v(op.env.latest), FALSE>>
           /\ TagRequests = {}
           /\ tags = op.tagsBefore

\* C3 as stated: on a commit whose resolved tag is vX.Y without a patch,
\* determine_version returns (X.Y.0, True) and requests exactly one tag
\* creation, of vX.Y.0.
C3_Original ==
    (OnTagged /\ Parses(op.env.latest) /\ ~HasPatch(op.env.latest))
        => LET X == Major(op.env.latest)
               Y == Minor(op.env.latest)
               version == V(X) \o <<".">> \o V(Y) \o <<".", "0">>
           IN  /\ ~ret.raised
               /\ ret.value = <<version, TRUE>>
               /\ Cardinality(TagRequests) = 1
               /\ \A i \in TagRequests : calls[i][2] = <<"v">> \o version

\* C3 amended: on a commit whose resolved tag is vX.Y without a patch,
\* determine_version returns (X.Y.1, True) and requests exactly one tag
\* creation, of vX.Y.1 (for v1.2: ("1.2.1", True) and the tag v1.2.1).
C3_FloatingTagNextPatch ==
    (OnTagged /\ Parses(op.env.latest) /\ ~HasPatch(op.env.latest))
        => LET X == Major(op.env.latest)
               Y == Minor(op.env.latest)
               version == V(X) \o <<".">> \o V(Y) \o <<".", "1">>
           IN  /\ ~ret.raised
               /\ ret.value = <<version, TRUE>>
               /\ Cardinality(TagRequests) = 1
               /\ \A i \in TagRequests : calls[i][2] = <<"v">> \o version

C3_Witness ==
    /\ OnTagged
    /\ op.env.latest = T_v1_2
    /\ ret.value = <<<<"1", ".", "2", ".", "1">>, TRUE>>
    /\ calls[1] = <<"git tag", <<"v", "1", ".", "2", ".", "1">>>>
    /\ <<"v", "1", ".", "2", ".", "1">> \in tags

\* C4: with an override, determine_version returns (override, False) whatever
\* the tags, the tags on HEAD and use_dev_version are, and makes no request:
\* no tag is created or deleted and the version record is not written.
C4_OverrideWins ==
    (op.name = "determine_version" /\ ~NoOverride)
        => /\ ~ret.raised
           /\ ret.value = <<op.args[1], FALSE>>
           /\ calls = <<>>
           /\ tags = op.tagsBefore
           /\ headTags = op.headBefore

C4_Witness ==
    /\ op.name = "determine_version"
    /\ op.args = <<<<"9", ".", "9">>, TRUE>>
    /\ T_v1_2 \in headTags
    /\ ret.value = <<<<"9", ".", "9">>, FALSE>>

\* no tag of the repository parses: resolution fails
NoTagParses == \A t \in tags : ~Parses(t)

Wrote(version) == \E i \in 1..Len(calls) :
    calls[i][1] = "write version.json" /\ calls[i][2].version = version

\* C8 as stated: when no tag parses, get_version returns "0.0.1-dev0" and
\* does not raise; when resolution succeeds it returns the resolved tag
\* without its leading v, having written it to the version record.
C8_Original ==
    op.name = "get_version"
        => /\ ~ret.raised
           /\ NoTagParses => ret.value = DefaultVersion
           /\ op.env.latest # NoneVal
                => ret.value = strip_v(op.env.latest) /\ Wrote(ret.value)

\* the fallback of get_version: __version__ of the _version module if it can
\* be imported, else the default
Fallback == IF versionModule # NoneVal THEN versionModule ELSE DefaultVersion

\* C8 amended: get_version never raises.  When no tag parses (or the tags
\* cannot be listed) it returns __version__ of the _version module if that
\* module exists, else "0.0.1-dev0".  When resolution succeeds and the version
\* record is written it returns the resolved tag without its leading v,
\* having written it; when the write fails it falls back in the same way.
C8_GetVersionFallback ==
    op.name = "get_version"
        => /\ ~ret.raised
           /\ (NoTagParses \/ op.env.latest = NoneVal)
                => ret.value = Fallback /\ calls = <<>>
           /\ (op.env.latest # NoneVal /\ op.env.saveOk)
                => ret.value = strip_v(op.env.latest) /\ Wrote(ret.value)
           /\ (op.env.latest # NoneVal /\ ~op.env.saveOk)
                => ret.value = Fallback /\ calls = <<>>

C8_Witness ==
    /\ op.name = "get_version"
    /\ tags = {T_bad}
    /\ op.env.gitTagOk
    /\ versionModule = <<"0", ".", "9", ".", "0">>
    /\ ret.value = <<"0", ".", "9", ".", "0">>

\* the parts of a development version, as the claims name them
DevBase ==
    IF op.args[1] # NoneVal /\ op.args[1] # <<>> THEN op.args[1]
    ELSE IF op.env.latest # NoneVal THEN strip_v(op.env.latest)
    ELSE <<"0", ".", "0", ".", "1">>

DevFallback == DevBase \o <<".", "d", "e", "v", "0">>

\* '/' replaced by '.' in a branch name, character by character
Dotted(b) == [i \in 1..Len(b) |-> IF b[i] = "/" THEN "." ELSE b[i]]

DevBranch(b) == IF b = <<"H", "E", "A", "D">> THEN Unknown ELSE Dotted(b)

DevFull(count, branch, commit) ==
    DevBase \o <<".", "d", "e", "v">> \o count \o <<"+">> \o DevBranch(branch) \o <<".">> \o commit

CountFailed == op.env.count = NoneVal

IdentFailed == op.env.branch = NoneVal \/ op.env.commit = NoneVal

\* C9 as stated: get_dev_version never raises; it returns exactly BASE.dev0
\* whenever the commit-count lookup or the branch or commit lookup fails, and
\* when all lookups succeed it returns BASE.devN+BRANCH.COMMIT ('/' -> '.',
\* HEAD -> unknown), having written it to the version record.
C9_Original ==
    op.name = "get_dev_version"
        => /\ ~ret.raised
           /\ (CountFailed \/ IdentFailed) => ret.value = DevFallback
           /\ ~(CountFailed \/ IdentFailed)
                => /\ ret.value = DevFull(op.env.count, op.env.branch, op.env.commit)
                   /\ Wrote(ret.value)

\* C9 amended: get_dev_version never raises.  It returns exactly BASE.dev0,
\* writing nothing, whenever the commit-count lookup fails or the version
\* record cannot be written.  Otherwise it returns BASE.devN+BRANCH.COMMIT
\* ('/' -> '.', HEAD -> unknown), having written it to the version record; a
\* failed branch or commit lookup does not cause the fallback but puts the
\* token unknown in that component.
C9_DevVersionFallback ==
    op.name = "get_dev_version"
        => /\ ~ret.raised
           /\ (CountFailed \/ ~op.env.saveOk)
                => ret.value = DevFallback /\ calls = <<>>
           /\ ~(CountFailed \/ ~op.env.saveOk)
                => /\ ret.value =
                        DevFull(op.env.count,
                                IF op.env.branch = NoneVal THEN Unknown ELSE op.env.branch,
                                IF op.env.commit = NoneVal THEN Unknown ELSE op.env.commit)
                   /\ Wrote(ret.value)

C9_Witness ==
    /\ op.name = "get_dev_version"
    /\ op.args[1] = NoneVal
    /\ op.env.latest = T_v1_10_0
    /\ op.env.branch = NoneVal
    /\ op.env.commit = <<"a", "1", "b", "2">>
    /\ ret.value = <<"1", ".", "1", "0", ".", "0", ".", "d", "e", "v", "7", "+",
                     "u", "n", "k", "n", "o", "w", "n", ".", "a", "1", "b", "2">>

\* the tag name create_tag asks for
TagName(version) == IF version[1] = "v" THEN version ELSE <<"v">> \o version

PushRequests == {i \in 1..Len(calls) : calls[i][1] = "git push origin"}

\* C10: create_tag(version, push) asks git to create v<version> (version
\* itself if it starts with v); it asks for the push only when push is set and
\* the local creation succeeded, and then after the creation; it returns True
\* iff every operation it asked for succeeded and False, without raising,
\* otherwise.  delete_tag does not raise either and returns False when the
\* deletion or its push fails.
C10_CreateDeleteTolerant ==
    /\ op.name = "create_tag"
        => LET name    == TagName(op.args[1])
               created == name \in tags /\ name \notin op.tagsBefore
           IN  /\ ~ret.raised
               /\ calls[1] = <<"git tag", name>>
               /\ TagRequests = {1}
               /\ PushRequests = (IF op.args[2] /\ created THEN {2} ELSE {})
               /\ \A i \in PushRequests : calls[i][2] = name
               /\ Len(calls) = 1 + Cardinality(PushRequests)
               /\ ret.value = (created /\ (op.args[2] => op.env.pushOk))
               /\ created = (op.env.createOk /\ name \notin op.tagsBefore)
    /\ op.name = "delete_tag"
        => LET deleted == op.args[1] \in op.tagsBefore /\ op.args[1] \notin tags
           IN  /\ ~ret.raised
               /\ ret.value = (deleted /\ (op.args[2] => op.env.pushOk))
               /\ ~deleted => tags = op.tagsBefore

C10_Witness ==
    /\ op.name = "create_tag"
    /\ op.args = <<<<"1", ".", "2", ".", "0">>, TRUE>>
    /\ <<"v", "1", ".", "2", ".", "0">> \in tags
    /\ Len(calls) = 2
    /\ ~op.env.pushOk
    /\ ret.value = FALSE

\* C6: for every parseable version string, bump_version returns
\* (major+1).0.0 for MAJOR, major.(minor+1).0 for MINOR and
\* major.minor.((patch or 0)+1) for PATCH: the result has an explicit patch,
\* no prerelease and no v prefix.
C6_Bump ==
    (op.name = "bump_version" /\ Parses(op.args[1]))
        => LET v == op.args[1]
               expected ==
                   IF op.args[2] = "MAJOR" THEN <<Major(v) + 1, 0, <<0>>, <<>>>>
                   ELSE IF op.args[2] = "MINOR" THEN <<Major(v), Minor(v) + 1, <<0>>, <<>>>>
                   ELSE <<Major(v), Minor(v),
                          <<(IF HasPatch(v) THEN PatchOrMinus1(v) ELSE 0) + 1>>, <<>>>>
           IN  /\ parse_version(ret.value) = expected
               /\ ret.value[1] \in Digit
               /\ ret.value = V(expected[1]) \o <<".">> \o V(expected[2]) \o <<".">>
                                  \o V(expected[3][1])

C6_Witness ==
    /\ op.name = "bump_version"
    /\ op.args = <<<<"v", "1", ".", "9", ".", "9", "-", "r", "c", ".", "1">>, "MINOR">>
    /\ ret.value = <<"1", ".", "1", "0", ".", "0">>

\* C7: for every valid version (patch absent or >= 0, prerelease absent or a
\* non-empty token over [A-Za-z0-9.-]) and both values of include_v,
\* parse_version(format_version(major, minor, patch, prerelease, include_v))
\* is (major, minor, patch, prerelease).
C7_RoundTrip ==
    op.name = "format_version"
        => parse_version(ret.value) = <<op.args[1], op.args[2], op.args[3], op.args[4]>>

C7_Witness ==
    /\ op.name = "format_version"
    /\ op.args = <<10, 0, <<0>>, <<<<"-", "1">>>>, TRUE>>
    /\ ret.value = <<"v", "1", "0", ".", "0", ".", "0", "-", "-", "1">>

\* a parseable tag with an absent patch component: a floating major.minor tag
Floating(t) == Parses(t) /\ ~HasPatch(t)

\* the tag of S that wins the selection of get_latest_tag: a maximum of the
\* parseable tags without prerelease, or of all parseable tags if there is none
Winner(S) ==
    IF \E t \in S : IsPlain(t)
    THEN CHOOSE w \in S : IsMaxOf(w, {t \in S : IsPlain(t)})
    ELSE CHOOSE w \in S : IsMaxOf(w, {t \in S : Parses(t)})

\* a build returned, having resolved its version from a tag
BuiltFromTag ==
    /\ op.name = "build"
    /\ ~ret.raised
    /\ NoOverride
    /\ op.env.det.gitTagOk
    /\ \E t \in op.tagsBefore : Parses(t)

DeleteRequests == {i \in 1..Len(calls) : calls[i][1] = "git tag -d"}

AllDeletionsSucceeded == DeleteRequests # {} => (op.env.del.delOk /\ op.env.del.pushOk)

\* C11: after a successful build that resolved its version from a floating
\* major.minor tag T, with every tag deletion succeeding, T still exists,
\* every other floating tag is gone, so that exactly one floating tag is
\* left, and no tag with an explicit patch was deleted.
C11_BuildKeepsOneFloatingTag ==
    (BuiltFromTag /\ Floating(Winner(op.tagsBefore)) /\ AllDeletionsSucceeded)
        => /\ Winner(op.tagsBefore) \in tags
           /\ {t \in tags : Floating(t)} = {Winner(op.tagsBefore)}
           /\ \A t \in op.tagsBefore : (Parses(t) /\ HasPatch(t)) => t \in tags

\* the read-path operations and the version string each of them returns
ReadPaths == {"get_version", "get_dev_version", "get_metadata", "determine_version"}

VersionOf(name, value) ==
    IF name \in {"get_metadata", "determine_version"} THEN value[1] ELSE value

\* C12: get_version, get_dev_version, get_metadata and determine_version
\* never raise and return a non-empty version string, whatever the
\* collaborators answer: failing commands, no tags, a tagged commit while
\* get_latest_tag returns None.
C12_ReadPathsNeverRaise ==
    op.name \in ReadPaths
        => /\ ~ret.raised
           /\ VersionOf(op.name, ret.value) # NoneVal
           /\ VersionOf(op.name, ret.value) # <<>>

\* C13: whenever get_latest_tag returns a string, parse_version accepts it
\* and it has the (major, minor, patch) of the tag that won the selection;
\* removing -pre from a winning prerelease tag changes neither.
C13_LatestTagParsesAsWinner ==
    (Listed /\ ret.value # NoneVal)
        => /\ Parses(ret.value)
           /\ Major(ret.value) = Major(Winner(tags))
           /\ Minor(ret.value) = Minor(Winner(tags))
           /\ parse_version(ret.value)[3] = parse_version(Winner(tags))[3]

\* determine_version returned is_new_tag = True
ReturnedNewTag == op.name = "determine_version" /\ ~ret.raised /\ ret.value[2]

\* C14: whenever determine_version returns is_new_tag = True, the tag
\* v<returned version> did not exist before the call, exists locally after
\* it and its push succeeded; a failed create_tag gives the flag False.
C14_NewTagFlagMeansCreated ==
    ReturnedNewTag
        => LET tag == <<"v">> \o ret.value[1]
           IN  /\ tag \notin op.tagsBefore
               /\ tag \in tags
               /\ op.env.createOk /\ op.env.pushOk
               /\ \E i \in 1..Len(calls) : calls[i] = <<"git push origin", tag>>

====
